---------------------------- MODULE Spec2Model ----------------------------
(***************************************************************************)
(* Loan cash-flow projection (src/loancf.py): Loan.getCashflow, Loan.y2p   *)
(* and Loan.p2y with their helper functions.                               *)
(*                                                                         *)
(* Numbers.  The program computes in IEEE-754 doubles (Python float and    *)
(* numpy float64 arrays).  A value is modelled as a pair <<n, d>>:         *)
(*   d > 0          the rational n/d in lowest terms,                      *)
(*   <<1, 0>>       +Infinity,   <<-1, 0>>  -Infinity,                     *)
(*   <<0, 0>>       NaN.                                                   *)
(* Arithmetic on finite values is exact (rounding is not modelled: the     *)
(* claims are stated "within floating tolerance"); the non-finite values   *)
(* follow IEEE-754 as numpy produces them: x/0 is an infinity, 0/0 is NaN, *)
(* NaN propagates through every operation and compares unequal to          *)
(* everything, itself included.  Signed zeros are not modelled.            *)
(*                                                                         *)
(* Vectors.  A numpy array of length n is a sequence of length n; the      *)
(* program's index t (0-based) is the sequence index t+1.                  *)
(***************************************************************************)
EXTENDS Integers, Sequences, FiniteSets, TLC

VARIABLES
    loan,      \* the Loan: wac, wam, pv
    scenario,  \* the Scenario
    input,     \* the Input: yieldValue, fullpx
    pc,        \* "init", then "cashflow", "priced", "solved" as the calls return
    df,        \* the DataFrame getCashflow returned
    frame,     \* getCashflow's local vectors at its return
    px,        \* the price y2p returned
    yld,       \* the outcome of p2y
    err        \* the exception raised, "none" if none

vars == <<loan, scenario, input, pc, df, frame, px, yld, err>>

-----------------------------------------------------------------------------
(* IEEE-754 values as extended rationals                                   *)

Abs(n) == IF n < 0 THEN -n ELSE n

Sgn(n) == IF n > 0 THEN 1 ELSE IF n < 0 THEN -1 ELSE 0

RECURSIVE Gcd(_, _)
Gcd(a, b) == IF b = 0 THEN a ELSE Gcd(b, a % b)

NaN == <<0, 0>>

PosInf == <<1, 0>>

NegInf == <<-1, 0>>

\* The rational n/d (d # 0) in lowest terms with a positive denominator.
Q(n, d) ==
    LET g == Gcd(Abs(n), Abs(d))
        s == IF d < 0 THEN -1 ELSE 1
    IN  <<s * (n \div g), Abs(d) \div g>>

Zero == <<0, 1>>

One == <<1, 1>>

IsNaN(x) == x = NaN

IsFinite(x) == x[2] > 0

IsZero(x) == x = Zero

\* An infinity of the given sign; NaN for sign 0 (inf * 0, inf - inf).
InfOf(s) == IF s > 0 THEN PosInf ELSE IF s < 0 THEN NegInf ELSE NaN

FNeg(x) == <<-x[1], x[2]>>

FAdd(x, y) ==
    IF IsNaN(x) \/ IsNaN(y) THEN NaN
    ELSE IF ~IsFinite(x) /\ ~IsFinite(y) THEN (IF x = y THEN x ELSE NaN)
    ELSE IF ~IsFinite(x) THEN x
    ELSE IF ~IsFinite(y) THEN y
    ELSE LET g == Gcd(x[2], y[2])
             l == (x[2] \div g) * y[2]
         IN  Q(x[1] * (l \div x[2]) + y[1] * (l \div y[2]), l)

FSub(x, y) == FAdd(x, FNeg(y))

FMul(x, y) ==
    IF IsNaN(x) \/ IsNaN(y) THEN NaN
    ELSE IF ~IsFinite(x) \/ ~IsFinite(y) THEN InfOf(Sgn(x[1]) * Sgn(y[1]))
    ELSE IF x[1] = 0 \/ y[1] = 0 THEN Zero
    ELSE LET g1 == Gcd(Abs(x[1]), y[2])
             g2 == Gcd(Abs(y[1]), x[2])
         IN  <<(x[1] \div g1) * (y[1] \div g2), (x[2] \div g2) * (y[2] \div g1)>>

\* 1/x: 1/0 = +inf, 1/inf = 0.
FRecip(x) ==
    IF IsNaN(x) THEN NaN
    ELSE IF ~IsFinite(x) THEN Zero
    ELSE IF x[1] = 0 THEN PosInf
    ELSE IF x[1] < 0 THEN <<-x[2], -x[1]>>
    ELSE <<x[2], x[1]>>

\* x / y: 0/0 = NaN, x/0 = +-inf, inf/inf = NaN, x/inf = 0.
FDiv(x, y) == FMul(x, FRecip(y))

\* x ** k for an integer k (a negative k is the reciprocal of the power).
RECURSIVE FPow(_, _)
FPow(x, k) ==
    IF k = 0 THEN One
    ELSE IF k < 0 THEN FRecip(FPow(x, -k))
    ELSE FMul(x, FPow(x, k - 1))

\* floor(a/b) < , = , > floor comparison of two finite values without
\* cross-multiplying: compare integer parts, then the reciprocals of the
\* fractional parts (continued-fraction comparison).
RECURSIVE CmpQ(_, _, _, _)
CmpQ(a, b, c, d) ==
    LET qa == a \div b
        qc == c \div d
        ra == a % b
        rc == c % d
    IN  IF qa # qc THEN (IF qa < qc THEN -1 ELSE 1)
        ELSE IF ra = 0 /\ rc = 0 THEN 0
        ELSE IF ra = 0 THEN -1
        ELSE IF rc = 0 THEN 1
        ELSE -CmpQ(b, ra, d, rc)

\* IEEE comparisons: every comparison with a NaN is false.
FLt(x, y) ==
    /\ ~IsNaN(x) /\ ~IsNaN(y)
    /\ x # y
    /\ IF ~IsFinite(x) THEN x = NegInf
       ELSE IF ~IsFinite(y) THEN y = PosInf
       ELSE CmpQ(x[1], x[2], y[1], y[2]) < 0

FEq(x, y) == ~IsNaN(x) /\ ~IsNaN(y) /\ x = y

FLe(x, y) == FLt(x, y) \/ FEq(x, y)

\* np.maximum(x, y): a NaN operand gives NaN.
FMax(x, y) ==
    IF IsNaN(x) \/ IsNaN(y) THEN NaN ELSE IF FLt(x, y) THEN y ELSE x


-----------------------------------------------------------------------------
(* numpy array primitives                                                  *)

\* A numpy array as the sequence of its (evaluated) elements.
array(f) == f \o <<>>

VAdd(u, v) == array([i \in 1..Len(u) |-> FAdd(u[i], v[i])])

VSub(u, v) == array([i \in 1..Len(u) |-> FSub(u[i], v[i])])

VMul(u, v) == array([i \in 1..Len(u) |-> FMul(u[i], v[i])])

VDiv(u, v) == array([i \in 1..Len(u) |-> FDiv(u[i], v[i])])

\* scalar * array
VScale(c, v) == array([i \in 1..Len(v) |-> FMul(c, v[i])])

\* np.full(n, c); np.ones(n) and np.zeros(n) are np.full(n, 1) and np.full(n, 0)
np_full(n, c) == array([i \in 1..n |-> c])

\* arr[:-1] and arr[1:]
ButLast(v) == SubSeq(v, 1, Len(v) - 1)

RECURSIVE PrefixSum(_, _)
PrefixSum(v, i) == IF i = 1 THEN v[1] ELSE FAdd(PrefixSum(v, i - 1), v[i])

RECURSIVE PrefixProd(_, _)
PrefixProd(v, i) == IF i = 1 THEN v[1] ELSE FMul(PrefixProd(v, i - 1), v[i])

cumsum(v) == array([i \in 1..Len(v) |-> PrefixSum(v, i)])

cumprod(v) == array([i \in 1..Len(v) |-> PrefixProd(v, i)])

np_sum(v) == IF Len(v) = 0 THEN Zero ELSE PrefixSum(v, Len(v))

\* floor(m / 10^k)
RECURSIVE DivPow10(_, _)
DivPow10(m, k) == IF k = 0 THEN m ELSE DivPow10(m \div 10, k - 1)

\* np.isclose(b, 0, rtol=0, atol=3e-11): |b| <= 3 * 10^-11, false for NaN, inf
AtolMantissa == 3

AtolExponent == 11

isclose0(b) ==
    IsFinite(b) /\ Abs(b[1]) <= DivPow10(AtolMantissa * b[2], AtolExponent)

safedivide(a, b) == IF isclose0(b) THEN Zero ELSE FDiv(a, b)

shift_elements(arr, num, fill_value) ==
    LET n == Len(arr)
    IN  IF num > 0
        THEN array([i \in 1..n |-> IF i <= num THEN fill_value ELSE arr[i - num]])
        ELSE IF num < 0
        THEN array([i \in 1..n |-> IF i > n + num THEN fill_value ELSE arr[i - num]])
        ELSE arr

\* pad_value is a value, or the marker 'last' (LastPad) for the vector's last entry
LastPad == <<"last">>

pad_zeros(vec, n, pad_value) ==
    IF Len(vec) < n
    THEN LET pad_val == IF Len(pad_value) = 1 THEN vec[Len(vec)] ELSE pad_value
         IN  vec \o np_full(n - Len(vec), pad_val)
    ELSE vec

\* numpy_financial.pmt(rate, nper, pv) with fv = 0, when = 'end':
\*   temp = (1+rate)**nper; fact = nper if rate == 0 else (temp-1)/rate;
\*   -(fv + pv*temp)/fact
npf_pmt(rate, nper, pv) ==
    LET temp == FPow(FAdd(One, rate), nper)
        fact == IF FEq(rate, Zero) THEN Q(nper, 1)
                ELSE FDiv(FSub(temp, One), rate)
    IN  FNeg(FDiv(FMul(pv, temp), fact))

-----------------------------------------------------------------------------
(* Loan.getCashflow                                                        *)

Twelve == Q(12, 1)

Two == Q(2, 1)

\* rate = wac / 12
MonthlyRate(wac) == FDiv(wac, Twelve)

\* A balance schedule that ignores the coupon: pv paid down in equal steps.
balancesV_straight_line(pv, rate, wam) ==
    array([i \in 1..(wam + 1) |-> FDiv(FMul(pv, Q(wam - (i - 1), 1)), Q(wam, 1))])

\* balancesV = pv * (1 - (1+rate)**-(wam - arange(wam+1))) / (1 - (1+rate)**-wam)
balancesV(pv, rate, wam) ==
    LET g == FAdd(One, rate)
        denom == FSub(One, FPow(g, -wam))
    IN  array([i \in 1..(wam + 1) |->
            FDiv(FMul(pv, FSub(One, FPow(g, -(wam - (i - 1))))), denom)])

\* p_survV = cumprod(ones(wam) - smmV - refund_smm - mdrV)
p_survV(wam, smmV, refund_smm, mdrV) ==
    cumprod(VSub(VSub(VSub(np_full(wam, One), smmV), refund_smm), mdrV))

\* scaled_default_aggMDRV = default_aggMDRV / (balancesV[:-1] * p_survV)
scaled_default_aggMDRV(default_aggMDRV, balV, psurvV) ==
    VDiv(default_aggMDRV, VMul(ButLast(balV), psurvV))

\* survivorshipV = insert(p_survV * (1 - cumsum(scaled)), 0, 1)
survivorshipV(psurvV, scaledV) ==
    LET cum_scaled_default_aggMDRV == cumsum(scaledV)
    IN  <<One>> \o array([i \in 1..Len(psurvV) |->
            FMul(psurvV[i], FSub(One, cum_scaled_default_aggMDRV[i]))])

\* writedownV = shift_elements(pad_zeros(defaultV, period_with_lag), recovery_lag, 0)
writedownV(defaultV, period_with_lag, recovery_lag) ==
    shift_elements(pad_zeros(defaultV, period_with_lag, Zero), recovery_lag, Zero)

\* recoveryV = writedownV * (1 - pad_zeros(sevV, period_with_lag, 'last'))
recoveryV(wdV, sevV, period_with_lag) ==
    LET sev == pad_zeros(sevV, period_with_lag, LastPad)
    IN  array([i \in 1..Len(wdV) |-> FMul(wdV[i], FSub(One, sev[i]))])

\* totalPrinV = pad(schedPrinV) + pad(prepayPrinV) + recoveryV, where
\* prepayPrinV is still the smm prepayment alone (line 135 runs before
\* line 138 adds the refund principal to prepayPrinV)
totalPrinV(schedPrinV, prepayPrinV, recV, period_with_lag) ==
    VAdd(VAdd(pad_zeros(schedPrinV, period_with_lag, Zero),
              pad_zeros(prepayPrinV, period_with_lag, Zero)), recV)

\* getCashflow is modelled section by section; each section takes the local
\* variables set so far (the record f) and returns f with its own added.

\* Lines 80-103: the inputs and the amortization schedule.
Amortization(ln, sc) ==
    LET rate == MonthlyRate(ln.wac)
        balV == balancesV(ln.pv, rate, ln.wam)
        X == FNeg(npf_pmt(rate, ln.wam, ln.pv))
        interestsV == VScale(rate, ButLast(balV))
        principalsV == array([i \in 1..ln.wam |-> FSub(X, interestsV[i])])
    IN  [ wam |-> ln.wam, pv |-> ln.pv,
          period_with_lag |-> ln.wam + sc.recovery_lag,
          dqMdrV |-> VAdd(sc.dqV, sc.mdrV),
          rate |-> rate, X |-> X,
          monthsV |-> array([i \in 1..(ln.wam + sc.recovery_lag) |-> i]),
          balancesV |-> balV,
          principalsV |-> principalsV,
          paydownV |-> VDiv(principalsV, ButLast(balV)) ]

\* Lines 105-110: periodic survivorship and the aggregate-default overlay.
Survivorship(sc, f) ==
    LET psurvV == p_survV(f.wam, sc.smmV, sc.refund_smm, sc.mdrV)
        default_aggMDRV == VScale(FMul(f.pv, sc.aggMDR), sc.aggMDR_timingV)
        scaledV == scaled_default_aggMDRV(default_aggMDRV, f.balancesV, psurvV)
    IN  f @@ [ p_survV |-> psurvV,
               default_aggMDRV |-> default_aggMDRV,
               dqPrin_aggMDRV |-> VMul(f.paydownV, default_aggMDRV),
               scaled_default_aggMDRV |-> scaledV,
               survivorshipV |-> survivorshipV(psurvV, scaledV) ]

\* Lines 112-122: balances and the scheduled, prepayment and default principal.
Principal(sc, f) ==
    LET actualBalanceV0 == VMul(f.survivorshipV, f.balancesV)
        survPrinV == VMul(ButLast(f.survivorshipV), f.principalsV)
        dqPrinV == IF sc.is_advance THEN np_full(f.wam, Zero)
                   ELSE VAdd(VMul(survPrinV, f.dqMdrV), f.dqPrin_aggMDRV)
    IN  f @@ [ b_balanceV |-> ButLast(actualBalanceV0),
               actualBalanceV |-> Tail(actualBalanceV0),
               dqPrinV |-> dqPrinV,
               schedPrinV |-> VSub(survPrinV, dqPrinV),
               survEndBalV |-> VMul(ButLast(f.survivorshipV), Tail(f.balancesV)),
               defaultV |-> VAdd(VMul(ButLast(actualBalanceV0), sc.mdrV),
                                 f.default_aggMDRV) ]

\* Lines 128-138: writedowns, recoveries, total principal, refund principal.
\* (Lines 129-130, the "old calculation" of recoveryV, are overwritten by
\* line 132 before any use.)
Losses(sc, f) ==
    LET prepayPrinV0 == VMul(f.survEndBalV, sc.smmV)
        wdV == writedownV(f.defaultV, f.period_with_lag, sc.recovery_lag)
        recV == recoveryV(wdV, sc.sevV, f.period_with_lag)
        refundPrinV == VMul(f.survEndBalV, sc.refund_smm)
    IN  f @@ [ writedownV |-> wdV,
               recoveryV |-> recV,
               refundPrinV |-> refundPrinV,
               totalPrinV |-> totalPrinV(f.schedPrinV, prepayPrinV0, recV,
                                         f.period_with_lag),
               compIntV |-> array([i \in 1..f.wam |->
                               FMul(FMul(prepayPrinV0[i], f.rate), sc.compIntHC)]),
               refundIntV |-> VScale(f.rate, refundPrinV),
               prepayPrinV |-> VAdd(prepayPrinV0, refundPrinV) ]

\* Lines 141-152: the unresolved default balance and the servicing fee.
ServicingFee(sc, f) ==
    LET n == f.period_with_lag
        unresolvedV == cumsum(VSub(pad_zeros(f.defaultV, n, Zero), f.writedownV))
        defaultBalV == array([i \in 1..n |-> FMax(Zero, unresolvedV[i])])
        b_totalBalV == VAdd(pad_zeros(f.b_balanceV, n, Zero),
                            ButLast(<<Zero>> \o defaultBalV))
        totalBalV == VAdd(pad_zeros(f.actualBalanceV, n, Zero), defaultBalV)
        servicingFee_rate == FDiv(sc.servicing_fee, Twelve)
    IN  f @@ [ defaultBalV |-> defaultBalV,
               servicingFeeV |->
                   IF sc.servicing_fee_method = "avg"
                   THEN VScale(servicingFee_rate,
                               array([i \in 1..n |->
                                   FDiv(FAdd(b_totalBalV[i], totalBalV[i]), Two)]))
                   ELSE VScale(servicingFee_rate, b_totalBalV) ]

\* Lines 155-158: net interest and total cash flow.
Interest(sc, f) ==
    LET actInterestV0 ==
            IF sc.is_advance THEN VScale(f.rate, f.b_balanceV)
            ELSE array([i \in 1..f.wam |->
                    FSub(FMul(f.rate,
                              FSub(FMul(f.b_balanceV[i], FSub(One, f.dqMdrV[i])),
                                   f.default_aggMDRV[i])),
                         f.compIntV[i])])
        actInterestV == VSub(actInterestV0, f.refundIntV)
    IN  f @@ [ actInterestV |-> actInterestV,
               cfV |-> VAdd(f.totalPrinV,
                            pad_zeros(actInterestV, f.period_with_lag, Zero)) ]

\* Lines 160-185: the columns of the DataFrame, padded to wam + recovery_lag
\* rows, beside the local vectors the properties below are about.
Table(f) ==
    LET n == f.period_with_lag
    IN  [ X |-> f.X,
          rate |-> f.rate,
          balancesV |-> f.balancesV,
          principalsV |-> f.principalsV,
          p_survV |-> f.p_survV,
          default_aggMDRV |-> f.default_aggMDRV,
          scaled_default_aggMDRV |-> f.scaled_default_aggMDRV,
          survivorshipV |-> f.survivorshipV,
          defaultBalV |-> f.defaultBalV,
          Months |-> f.monthsV,
          Prin |-> f.totalPrinV,
          SchedPrin |-> pad_zeros(f.schedPrinV, n, Zero),
          PrepayPrin |-> pad_zeros(f.prepayPrinV, n, Zero),
          RefundPrin |-> pad_zeros(f.refundPrinV, n, Zero),
          Default |-> pad_zeros(f.defaultV, n, Zero),
          Writedown |-> f.writedownV,
          Recovery |-> f.recoveryV,
          Interest |-> pad_zeros(f.actInterestV, n, Zero),
          ServicingFee |-> f.servicingFeeV,
          BeginningBalance |-> pad_zeros(f.b_balanceV, n, Zero),
          Balance |-> pad_zeros(f.actualBalanceV, n, Zero),
          CFL |-> f.cfV ]

getCashflow(ln, sc) ==
    Table(Interest(sc, ServicingFee(sc, Losses(sc, Principal(sc,
          Survivorship(sc, Amortization(ln, sc)))))))

-----------------------------------------------------------------------------
(* Loan.y2p and Loan.p2y                                                   *)

\* A price that leaves the cash flows undiscounted.
price_undiscounted(tbl, pv, period_with_lag, yieldValue) ==
    FDiv(np_sum(VSub(tbl.CFL, tbl.ServicingFee)),
         FSub(pv, np_sum(tbl.RefundPrin)))

\* px = sum((cfV - servicingFeeV) / yV) / (pv - sum(refundPrinV / yV)) with
\* yV = (1 + yieldValue/12) ** arange(1, wam + 1 + recovery_lag)
price(tbl, pv, period_with_lag, yieldValue) ==
    LET g == FAdd(One, FDiv(yieldValue, Twelve))
        yV == array([i \in 1..period_with_lag |-> FPow(g, i)])
    IN  FDiv(np_sum(VDiv(VSub(tbl.CFL, tbl.ServicingFee), yV)),
             FSub(pv, np_sum(VDiv(tbl.RefundPrin, yV))))

\* y2p calls getCashflow three times; the function is pure and every call
\* returns the same table.
y2p(ln, sc, inp) ==
    price(getCashflow(ln, sc), ln.pv, ln.wam + sc.recovery_lag, inp.yieldValue)

\* The bracket brentq is given: annual yields 0.0001 and 1.0.
BracketLo == Q(1, 10000)

BracketHi == One

\* Annual yields between the bracket's ends at which the model evaluates
\* price_for_yield: 6%, 12% and 20% (1 + y/12 = 201/200, 101/100 and 61/60).
Y6 == Q(6, 100)

Y12 == Q(12, 100)

Y20 == Q(20, 100)

Yields == {Y6, Y12, Y20}

YieldGrid == <<BracketLo, Y6, Y12, Y20, BracketHi>>

\* Bounds on y2p at the lower end of the bracket, <<lo, hi>> with
\* lo <= y2p(0.0001) <= hi, or <<NaN, NaN>> when the table is not finite or
\* the bounds do not decide the sign of pv - sum(refundPrinV / yV).  The
\* powers of 1 + 0.0001/12 = 120001/120000 do not fit the model checker's
\* integers; with d = 0.0001/12 every discount factor 1/(1+d)^t lies in
\* [1 - t d, 1], which bounds the two sums of y2p term by term.
price_bounds_at_lo(tbl, pv, period_with_lag) ==
    LET d == FDiv(BracketLo, Twelve)
        least(t) == FSub(One, FMul(Q(t, 1), d))
        net == VSub(tbl.CFL, tbl.ServicingFee)
        ref == tbl.RefundPrin
        lower(v) == np_sum(array([t \in 1..period_with_lag |->
                       IF FLt(v[t], Zero) THEN v[t] ELSE FMul(v[t], least(t))]))
        upper(v) == np_sum(array([t \in 1..period_with_lag |->
                       IF FLt(v[t], Zero) THEN FMul(v[t], least(t)) ELSE v[t]]))
        finite == /\ IsFinite(pv)
                  /\ \A t \in 1..period_with_lag : IsFinite(net[t]) /\ IsFinite(ref[t])
        nLo == lower(net)
        nHi == upper(net)
        bLo == FSub(pv, upper(ref))
        bHi == FSub(pv, lower(ref))
    IN  IF ~finite \/ ~FLt(Zero, bLo) THEN <<NaN, NaN>>
        ELSE << FDiv(nLo, IF FLt(nLo, Zero) THEN bLo ELSE bHi),
                FDiv(nHi, IF FLt(nHi, Zero) THEN bHi ELSE bLo) >>

\* The sign of price_for_yield(y) = y2p(scenario, Helper(y)) - price_target:
\* -1, 0 or 1, and 2 when the value is not a finite number or, at the lower
\* end of the bracket, when the bounds on y2p do not decide it.  tbl is the
\* table y2p's getCashflow call returns, the same for every y.
price_for_yield_sign(tbl, pv, period_with_lag, price_target, y) ==
    IF y = BracketLo
    THEN LET b == price_bounds_at_lo(tbl, pv, period_with_lag)
         IN  IF FLt(price_target, b[1]) THEN 1
             ELSE IF FLt(b[2], price_target) THEN -1
             ELSE IF FEq(b[1], price_target) /\ FEq(b[2], price_target) THEN 0
             ELSE 2
    ELSE LET px_y == price(tbl, pv, period_with_lag, y)
         IN  IF ~IsFinite(px_y) \/ ~IsFinite(price_target) THEN 2
             ELSE IF FLt(price_target, px_y) THEN 1
             ELSE IF FLt(px_y, price_target) THEN -1
             ELSE 0

\* scipy.optimize.brentq(f, a, b) on the grid, f given by its signs sg[i] at
\* grid[i] (a = grid[1], b = grid[Len(grid)]): the set of its outcomes.
\*   f(a) = 0 returns a, f(b) = 0 returns b, f(a) and f(b) of one sign raise
\*   ValueError; otherwise it returns a root inside the bracket: a grid point
\*   where f is 0, or a point between two grid points where f changes sign.
\*   With a sign of f(a) or f(b) that is not known (2) the outcome is not
\*   determined.
brentq(sg, grid) ==
    LET k == Len(grid)
        zeros == {i \in 2..(k - 1) : sg[i] = 0}
        flips == {i \in 1..(k - 1) : sg[i] * sg[i + 1] = -1}
    IN  IF sg[1] = 2 \/ sg[k] = 2
        THEN {[kind |-> "ValueError"], [kind |-> "between"]}
             \cup {[kind |-> "root", y |-> grid[i]] : i \in 1..k}
        ELSE IF sg[1] = 0 THEN {[kind |-> "root", y |-> grid[1]]}
        ELSE IF sg[k] = 0 THEN {[kind |-> "root", y |-> grid[k]]}
        ELSE IF sg[1] = sg[k] THEN {[kind |-> "ValueError"]}
        ELSE {[kind |-> "root", y |-> grid[i]] : i \in zeros}
             \cup (IF flips # {} THEN {[kind |-> "between"]} ELSE {})

\* p2y: brentq(price_for_yield, 0.0001, 1.0), as the set of its outcomes
p2y(ln, sc, inp) ==
    LET tbl == getCashflow(ln, sc)
        n == ln.wam + sc.recovery_lag
        sg == array([i \in 1..Len(YieldGrid) |->
                 price_for_yield_sign(tbl, ln.pv, n, inp.fullpx, YieldGrid[i])])
    IN  brentq(sg, YieldGrid)

-----------------------------------------------------------------------------
(* Inputs                                                                  *)

MaxWam == 3

MaxScenarioWam == 2

MaxPv == 2

MaxLag == 1

Half == Q(1, 2)

Quarter == Q(1, 4)

\* Monthly rates a scenario vector draws its entries from.
Rates == {Zero, Half, One}

\* Annual coupons: rate = wac/12 is 0, 1/2 or 1.
WacSet == {Zero, Q(6, 1), Q(12, 1)}

PvSet == {Q(k, 1) : k \in 1..MaxPv}

Vecs(n) == [1..n -> Rates]

ConstVecs(n) == {np_full(n, c) : c \in Rates}

\* aggMDR_timingV: non-negative weights with sum <= 1
TimingVecs(n) == {v \in Vecs(n) : FLe(np_sum(v), One)}

NoValue == <<>>

\* A Scenario with the dataclass defaults for the fields not given:
\* refund_smm = 0, aggMDR = 0.0, aggMDR_timingV = 0 (scalars, which numpy
\* broadcasts: the same as vectors of zeros), compIntHC = 0.0,
\* servicing_fee = 0.0, is_advance = False, servicing_fee_method = "avg".
Scenario(n, smmV, dqV, mdrV, sevV, lag) ==
    [ smmV |-> smmV, dqV |-> dqV, mdrV |-> mdrV, sevV |-> sevV,
      recovery_lag |-> lag, refund_smm |-> np_full(n, Zero),
      refund_premium |-> One, aggMDR |-> Zero,
      aggMDR_timingV |-> np_full(n, Zero), compIntHC |-> Zero,
      servicing_fee |-> Zero, is_advance |-> FALSE,
      servicing_fee_method |-> "avg" ]

Loan(wac, wam, pv) == [wac |-> wac, wam |-> wam, pv |-> pv]

Input(y) == [yieldValue |-> y, fullpx |-> Zero]

\* Nothing has been computed yet.
Fresh ==
    /\ pc = "init"
    /\ df = NoValue
    /\ frame = NoValue
    /\ px = NoValue
    /\ yld = NoValue
    /\ err = "none"

\* Prepayment, periodic default and refund hazards with a recovery lag.
InitHazard ==
    /\ \E wac \in WacSet, n \in 1..MaxScenarioWam, pv \in PvSet :
         /\ loan = Loan(wac, n, pv)
         /\ \E smmV \in Vecs(n), mdrV \in Vecs(n), ref \in ConstVecs(n),
               lag \in 0..MaxLag :
              scenario = [Scenario(n, smmV, np_full(n, Zero), mdrV, np_full(n, Half), lag)
                            EXCEPT !.refund_smm = ref]
    /\ input = Input(Y20)
    /\ Fresh

\* Periodic defaults with a severity per month and a recovery lag.
InitLoss ==
    /\ \E wac \in WacSet, n \in 1..MaxScenarioWam :
         /\ loan = Loan(wac, n, Q(MaxPv, 1))
         /\ \E mdrV \in Vecs(n), sevV \in Vecs(n), lag \in 0..MaxLag :
              scenario = Scenario(n, np_full(n, Zero), np_full(n, Zero), mdrV, sevV, lag)
    /\ input = Input(Y20)
    /\ Fresh

\* The aggregate (lump-sum) default overlay.
InitAggregate ==
    /\ \E wac \in WacSet, n \in 1..MaxScenarioWam, pv \in PvSet :
         /\ loan = Loan(wac, n, pv)
         /\ \E smmV \in ConstVecs(n), agg \in Rates \ {Zero}, tim \in TimingVecs(n),
               lag \in 0..MaxLag :
              scenario = [Scenario(n, smmV, np_full(n, Zero), np_full(n, Zero),
                                   np_full(n, Half), lag)
                            EXCEPT !.aggMDR = agg, !.aggMDR_timingV = tim]
    /\ input = Input(Y20)
    /\ Fresh

\* Delinquency, servicer advances, servicing fee and compensating interest.
InitServicing ==
    /\ \E wac \in WacSet, n \in 1..MaxScenarioWam :
         /\ loan = Loan(wac, n, Q(MaxPv, 1))
         /\ \E smmV \in ConstVecs(n), dqV \in ConstVecs(n), lag \in 0..MaxLag,
               hc \in {Zero, One}, fee \in {Zero, Q(6, 1)}, adv \in BOOLEAN,
               method \in {"avg", "beg"} :
              scenario = [Scenario(n, smmV, dqV, np_full(n, Half), np_full(n, Half), lag)
                            EXCEPT !.compIntHC = hc, !.servicing_fee = fee,
                                   !.is_advance = adv, !.servicing_fee_method = method]
    /\ input = Input(Y20)
    /\ Fresh

\* Scenarios of the data model: every rate in [0,1], timing weights summing
\* to at most 1, wac >= 0, wam > 0, pv > 0.
Init == InitHazard \/ InitLoss \/ InitAggregate \/ InitServicing

\* Plain amortization: every prepayment, delinquency and default rate and the
\* servicing fee are 0 and there is no recovery lag.
InitAmort ==
    /\ \E wac \in WacSet, n \in 1..MaxWam, pv \in PvSet :
         /\ loan = Loan(wac, n, pv)
         /\ \E sevV \in ConstVecs(n), adv \in BOOLEAN, method \in {"avg", "beg"} :
              scenario = [Scenario(n, np_full(n, Zero), np_full(n, Zero),
                                   np_full(n, Zero), sevV, 0)
                            EXCEPT !.is_advance = adv, !.servicing_fee_method = method]
    /\ input = Input(Y20)
    /\ Fresh

\* Constant monthly <<smm, mdr, refund_smm>> with smm + mdr + refund_smm < 1
HazardMixes ==
    { <<Zero, Zero, Zero>>, <<Half, Zero, Zero>>, <<Zero, Half, Zero>>,
      <<Zero, Zero, Half>>, <<Quarter, Quarter, Zero>>, <<Quarter, Zero, Quarter>>,
      <<Zero, Quarter, Quarter>>, <<Quarter, Quarter, Quarter>> }

\* Yield/price conversions: constant-rate scenarios priced at each yield.  The
\* hazards sum to less than 1 in every month, so every table is finite.
InitYield ==
    /\ \E wac \in WacSet \ {Zero}, n \in 1..MaxScenarioWam, pv \in PvSet :
         /\ loan = Loan(wac, n, pv)
         /\ \E h \in HazardMixes, dq \in Rates, adv \in BOOLEAN,
               fee \in {Zero, Q(6, 1)} :
              scenario = [Scenario(n, np_full(n, h[1]), np_full(n, dq), np_full(n, h[2]),
                                   np_full(n, Half), 0)
                            EXCEPT !.refund_smm = np_full(n, h[3]), !.is_advance = adv,
                                   !.servicing_fee = fee]
    /\ \E y \in Yields : input = Input(y)
    /\ Fresh

\* Inputs outside the data model: pv <= 0, wac < 0, a rate outside [0,1].
InitInvalid ==
    /\ \E wac \in WacSet \cup {Q(-6, 1)}, n \in 1..MaxScenarioWam,
          pv \in PvSet \cup {Zero, Q(-1, 1)} :
         /\ loan = Loan(wac, n, pv)
         /\ \E smm \in Rates \cup {Q(-1, 2), Q(3, 2)}, sev \in Rates \cup {Two} :
              scenario = Scenario(n, np_full(n, smm), np_full(n, Zero),
                                  np_full(n, Zero), np_full(n, sev), 0)
    /\ input = Input(Y20)
    /\ Fresh

-----------------------------------------------------------------------------
(* Operations                                                              *)

Columns ==
    {"Months", "Prin", "SchedPrin", "PrepayPrin", "RefundPrin", "Default",
     "Writedown", "Recovery", "Interest", "ServicingFee", "BeginningBalance",
     "Balance", "CFL"}

Locals ==
    {"X", "rate", "balancesV", "principalsV", "p_survV", "default_aggMDRV",
     "scaled_default_aggMDRV", "survivorshipV", "defaultBalV"}

\* df = loan.getCashflow(scenario)
GetCashflow ==
    /\ pc = "init"
    /\ LET r == getCashflow(loan, scenario)
       IN  /\ df' = [c \in Columns |-> r[c]]
           /\ frame' = [c \in Locals |-> r[c]]
    /\ pc' = "cashflow"
    /\ UNCHANGED <<loan, scenario, input, px, yld, err>>

\* px = loan.y2p(scenario, input); the caller keeps the price as the next
\* conversion's input.fullpx
Y2P ==
    /\ pc = "cashflow"
    /\ px' = y2p(loan, scenario, input)
    /\ input' = [input EXCEPT !.fullpx = px']
    /\ pc' = "priced"
    /\ UNCHANGED <<loan, scenario, df, frame, yld, err>>

\* yld = loan.p2y(scenario, input)
P2Y ==
    /\ pc = "priced"
    /\ \E r \in p2y(loan, scenario, input) :
          /\ yld' = r
          /\ err' = IF r.kind = "ValueError" THEN "ValueError" ELSE err
    /\ pc' = "solved"
    /\ UNCHANGED <<loan, scenario, input, df, frame, px>>

Next == GetCashflow \/ Y2P \/ P2Y

Spec == Init /\ [][Next]_vars

SpecAmort == InitAmort /\ [][GetCashflow]_vars

SpecYield == InitYield /\ [][Next]_vars

SpecInvalid == InitInvalid /\ [][Next]_vars

-----------------------------------------------------------------------------
(* Properties                                                              *)

\* getCashflow has returned: df holds the table.
HasTable == pc # "init"

\* The records of the table: months 1..wam + recovery_lag.
Rows == 1..(loan.wam + scenario.recovery_lag)

AllZero(v) == \A i \in 1..Len(v) : IsZero(v[i])

Finite(v) == \A i \in 1..Len(v) : IsFinite(v[i])

InUnit(x) == FLe(Zero, x) /\ FLe(x, One)

AllInUnit(v) == \A i \in 1..Len(v) : InUnit(v[i])

\* Every column of the table holds finite numbers only.
FiniteTable ==
    \A c \in Columns \ {"Months"} : Finite(df[c])

\* No prepayment, refund, delinquency, default, servicing fee or recovery lag.
ZeroScenario ==
    /\ AllZero(scenario.smmV) /\ AllZero(scenario.dqV) /\ AllZero(scenario.mdrV)
    /\ AllZero(scenario.refund_smm) /\ IsZero(scenario.aggMDR)
    /\ IsZero(scenario.servicing_fee) /\ scenario.recovery_lag = 0

\* The spec's data model: wam > 0, pv > 0, wac >= 0, every rate and severity
\* in [0,1], aggMDR in [0,1], timing weights non-negative with sum <= 1.
DataModel ==
    /\ loan.wam > 0 /\ FLt(Zero, loan.pv) /\ FLe(Zero, loan.wac)
    /\ AllInUnit(scenario.smmV) /\ AllInUnit(scenario.dqV)
    /\ AllInUnit(scenario.mdrV) /\ AllInUnit(scenario.sevV)
    /\ AllInUnit(scenario.refund_smm) /\ InUnit(scenario.aggMDR)
    /\ AllInUnit(scenario.aggMDR_timingV)
    /\ FLe(np_sum(scenario.aggMDR_timingV), One)
    /\ scenario.recovery_lag >= 0

\* C1: with wac > 0 and every prepayment, delinquency and default rate zero,
\* the SchedPrin column sums to pv over months 1..wam and the Balance of
\* month wam is 0.
C1_AmortizationClosure ==
    (HasTable /\ FLt(Zero, loan.wac) /\ FLt(Zero, loan.pv) /\ ZeroScenario)
    => /\ FEq(np_sum(SubSeq(df.SchedPrin, 1, loan.wam)), loan.pv)
       /\ FEq(df.Balance[loan.wam], Zero)

\* A table of a coupon-bearing loan of at least two months under the
\* all-zero scenario, amortized to a zero balance.
C1_Witness ==
    /\ HasTable /\ FLt(Zero, loan.wac) /\ ZeroScenario /\ loan.wam >= 2
    /\ FLt(Zero, df.SchedPrin[1]) /\ FLt(df.SchedPrin[1], loan.pv)
    /\ FEq(df.Balance[loan.wam], Zero)

\* C2: with wac = 0 and every prepayment, delinquency and default rate zero,
\* SchedPrin is pv / wam and Interest is 0 in every month 1..wam.
C2_ZeroCouponStraightLine ==
    (HasTable /\ IsZero(loan.wac) /\ FLt(Zero, loan.pv) /\ ZeroScenario)
    => \A t \in 1..loan.wam :
          /\ FEq(df.SchedPrin[t], FDiv(loan.pv, Q(loan.wam, 1)))
          /\ FEq(df.Interest[t], Zero)

\* C3: for inputs of the data model the survivorship factor is 1 at month 0,
\* never increases from a month to the next, and stays within [0,1].
C3_SurvivorshipMonotone ==
    (HasTable /\ DataModel)
    => /\ FEq(frame.survivorshipV[1], One)
       /\ \A i \in 1..(loan.wam + 1) : InUnit(frame.survivorshipV[i])
       /\ \A i \in 1..loan.wam :
             FLe(frame.survivorshipV[i + 1], frame.survivorshipV[i])

\* Inputs the spec rejects: pv <= 0, wac < 0, a rate or severity outside [0,1].
InvalidInput ==
    \/ ~FLt(Zero, loan.pv)
    \/ FLt(loan.wac, Zero)
    \/ ~AllInUnit(scenario.smmV) \/ ~AllInUnit(scenario.dqV)
    \/ ~AllInUnit(scenario.mdrV) \/ ~AllInUnit(scenario.sevV)
    \/ ~AllInUnit(scenario.refund_smm)

\* C4: when the inputs are invalid, getCashflow, y2p and p2y fail with an
\* InvalidInput error and return no result.
C4_EagerValidation ==
    (InvalidInput /\ pc # "init") => err = "InvalidInput"

\* C5: in every month where the amortized balance times the periodic survival
\* probability is (close to) zero, the scaled aggregate-default rate is 0, and
\* no undefined value reaches the survivorship factor.
C5_SafeAggregateDivision ==
    HasTable
    => \A t \in 1..loan.wam :
          isclose0(FMul(frame.balancesV[t], frame.p_survV[t]))
          => /\ FEq(frame.scaled_default_aggMDRV[t], Zero)
             /\ IsFinite(frame.survivorshipV[t + 1])

\* Net cash flow of month t: CFL - ServicingFee.
NetCashflow(t) == FSub(df.CFL[t], df.ServicingFee[t])

\* Every month's net cash flow and refund principal are non-negative, some
\* month's net cash flow is positive, and the refunds sum to less than pv.
PositiveCashflows ==
    /\ \A t \in Rows : FLe(Zero, NetCashflow(t)) /\ FLe(Zero, df.RefundPrin[t])
    /\ \E t \in Rows : FLt(Zero, NetCashflow(t))
    /\ FLt(np_sum(df.RefundPrin), loan.pv)

\* An annual yield between 1% and 20%
InRange(y) == FLe(Q(1, 100), y) /\ FLe(y, Q(20, 100))

\* C6 (as stated): for every annual yield y between 1% and 20%, p2y applied
\* to the price y2p(y) returns y, the only root in the bracket.
C6_RoundTripAlways ==
    (pc = "solved" /\ InRange(input.yieldValue))
    => yld = [kind |-> "root", y |-> input.yieldValue]

\* C6 (amended): for an annual yield y between 1% and 20% and a table whose
\* net cash flows and refunds are non-negative, with a positive net cash flow
\* in some month and refunds summing to less than pv, p2y applied to the
\* price y2p(y) returns y, the only root in the bracket.
C6_RoundTripPositiveCashflows ==
    (pc = "solved" /\ InRange(input.yieldValue) /\ PositiveCashflows)
    => yld = [kind |-> "root", y |-> input.yieldValue]

\* A solved round trip on a table with prepayments, refunds, defaults and
\* recoveries.
C6_Witness ==
    /\ pc = "solved" /\ InRange(input.yieldValue) /\ PositiveCashflows
    /\ loan.wam >= 2
    /\ \E t \in Rows : /\ FLt(Zero, df.RefundPrin[t])
                       /\ FLt(df.RefundPrin[t], df.PrepayPrin[t])
                       /\ FLt(Zero, df.Recovery[t])
    /\ yld = [kind |-> "root", y |-> input.yieldValue]

\* The severity of month t; months past wam repeat the last severity.
sev(t) == IF t <= loan.wam THEN scenario.sevV[t] ELSE scenario.sevV[loan.wam]

\* C7: in every record Recovery = Writedown * (1 - sev) and
\* Writedown * sev = Writedown - Recovery, with the severity of months past
\* wam the last severity.
C7_RecoverySplit ==
    HasTable
    => \A t \in Rows :
          /\ FEq(df.Recovery[t], FMul(df.Writedown[t], FSub(One, sev(t))))
          /\ FEq(FMul(df.Writedown[t], sev(t)),
                 FSub(df.Writedown[t], df.Recovery[t]))

\* C8: in every record CFL = SchedPrin + Prepay Prin + Recovery + Interest and
\* Prin = SchedPrin + Prepay Prin + Recovery, also with refund_smm > 0.
C8_CashflowIdentity ==
    HasTable
    => \A t \in Rows :
          /\ FEq(df.CFL[t], FAdd(FAdd(FAdd(df.SchedPrin[t], df.PrepayPrin[t]),
                                      df.Recovery[t]), df.Interest[t]))
          /\ FEq(df.Prin[t], FAdd(FAdd(df.SchedPrin[t], df.PrepayPrin[t]),
                                  df.Recovery[t]))

\* C9: the table has wam + recovery_lag records, Writedown is 0 in the first
\* recovery_lag months and the Default of recovery_lag months earlier after
\* them, both columns have the same sum, and the unresolved defaulted balance
\* is never negative and is 0 after the last month.
C9_RecoveryLagShift ==
    HasTable
    => LET n == loan.wam + scenario.recovery_lag
           lag == scenario.recovery_lag
       IN  /\ \A c \in Columns : Len(df[c]) = n
           /\ \A t \in 1..n :
                 IF t <= lag THEN FEq(df.Writedown[t], Zero)
                 ELSE FEq(df.Writedown[t], df.Default[t - lag])
           /\ FEq(np_sum(df.Writedown), np_sum(df.Default))
           /\ \A t \in 1..n : FLe(Zero, frame.defaultBalV[t])
           /\ FEq(frame.defaultBalV[n], Zero)

\* Principal leaving the pool in month t.
PrincipalOut(t) ==
    FAdd(FAdd(df.SchedPrin[t], df.PrepayPrin[t]), df.Default[t])

\* The hazards of every month sum to at most 1.
HazardsAtMostOne ==
    \A t \in 1..loan.wam :
       FLe(FAdd(FAdd(scenario.smmV[t], scenario.refund_smm[t]), scenario.mdrV[t]), One)

\* C10: without advances, delinquency and aggregate defaults, with wac > 0
\* and the hazards of every month summing to at most 1, every month 1..wam has
\* BeginningBalance - Balance = SchedPrin + Prepay Prin + Default, the first
\* BeginningBalance is pv and every later one is the Balance of the month
\* before.
C10_PrincipalConservation ==
    (/\ HasTable /\ DataModel /\ FLt(Zero, loan.wac)
     /\ ~scenario.is_advance /\ AllZero(scenario.dqV) /\ IsZero(scenario.aggMDR)
     /\ HazardsAtMostOne)
    => /\ \A t \in 1..loan.wam :
             FEq(FSub(df.BeginningBalance[t], df.Balance[t]), PrincipalOut(t))
       /\ FEq(df.BeginningBalance[1], loan.pv)
       /\ \A t \in 1..(loan.wam - 1) :
             FEq(df.BeginningBalance[t + 1], df.Balance[t])

-----------------------------------------------------------------------------
(* What holds of the tables the code returns                               *)

\* With no aggregate overlay and hazards summing to at most 1 every month, a
\* finite survivorship vector starts at 1, never increases and stays in [0,1].
SurvivorshipMonotoneWithinHazards ==
    (/\ HasTable /\ DataModel /\ Finite(frame.survivorshipV)
     /\ IsZero(scenario.aggMDR) /\ HazardsAtMostOne)
    => /\ FEq(frame.survivorshipV[1], One)
       /\ \A i \in 1..(loan.wam + 1) : InUnit(frame.survivorshipV[i])
       /\ \A i \in 1..loan.wam :
             FLe(frame.survivorshipV[i + 1], frame.survivorshipV[i])

\* On a finite table Recovery is Writedown * (1 - sev) in every record.
RecoverySplitOnFiniteTables ==
    (HasTable /\ FiniteTable)
    => \A t \in Rows :
          FEq(df.Recovery[t], FMul(df.Writedown[t], FSub(One, sev(t))))

\* On a finite table Prin and CFL count the prepayments net of the refund
\* principal that the Prepay Prin column includes.
CashflowIdentityNetOfRefunds ==
    (HasTable /\ FiniteTable)
    => \A t \in Rows :
          LET prin == FAdd(FAdd(df.SchedPrin[t],
                                FSub(df.PrepayPrin[t], df.RefundPrin[t])),
                           df.Recovery[t])
          IN  /\ FEq(df.Prin[t], prin)
              /\ FEq(df.CFL[t], FAdd(prin, df.Interest[t]))

\* On a finite table Writedown is Default delayed by recovery_lag months, and
\* the unresolved defaulted balance is non-negative and ends at 0.
RecoveryLagShiftOnFiniteTables ==
    (HasTable /\ FiniteTable /\ Finite(frame.defaultBalV))
    => LET n == loan.wam + scenario.recovery_lag
           lag == scenario.recovery_lag
       IN  /\ \A t \in 1..n :
                 IF t <= lag THEN FEq(df.Writedown[t], Zero)
                 ELSE FEq(df.Writedown[t], df.Default[t - lag])
           /\ \A t \in 1..n : FLe(Zero, frame.defaultBalV[t])
           /\ FEq(frame.defaultBalV[n], Zero)

\* Principal is conserved when the hazards of every month sum to less than 1.
PrincipalConservationOffBoundary ==
    (/\ HasTable /\ DataModel /\ FLt(Zero, loan.wac)
     /\ ~scenario.is_advance /\ AllZero(scenario.dqV) /\ IsZero(scenario.aggMDR)
     /\ \A t \in 1..loan.wam :
           FLt(FAdd(FAdd(scenario.smmV[t], scenario.refund_smm[t]),
                    scenario.mdrV[t]), One))
    => /\ \A t \in 1..loan.wam :
             FEq(FSub(df.BeginningBalance[t], df.Balance[t]), PrincipalOut(t))
       /\ FEq(df.BeginningBalance[1], loan.pv)
       /\ \A t \in 1..(loan.wam - 1) :
             FEq(df.BeginningBalance[t + 1], df.Balance[t])

\* A table of the data model with a finite, negative survivorship factor.
NegativeSurvivorship ==
    /\ HasTable /\ DataModel /\ FLt(Zero, loan.wac)
    /\ Finite(frame.survivorshipV)
    /\ \E i \in 1..(loan.wam + 1) : FLt(frame.survivorshipV[i], Zero)

\* A finite table whose Prin column differs from
\* SchedPrin + Prepay Prin + Recovery.
RefundOutsidePrin ==
    /\ HasTable /\ DataModel /\ FiniteTable
    /\ \E t \in Rows :
          ~FEq(df.Prin[t], FAdd(FAdd(df.SchedPrin[t], df.PrepayPrin[t]),
                                df.Recovery[t]))

=============================================================================
